---- MODULE Spec2Model ----
(***************************************************************************)
(* Verification model of steve-adams.me.                                   *)
(*                                                                         *)
(*  GuardSpec   the git-guard.sh PreToolUse hook: one run of the script on *)
(*              one standard input, statement by statement.                *)
(*  WidgetSpec  the assembly-line widget (AssemblyLine.vue): its event     *)
(*              handlers addMaterial, toggle, tick and the unmount hook.   *)
(*  LineFairSpec  the widget fed with one material type, its interval     *)
(*              timer firing again and again while the line runs.          *)
(*  PostsSpec   one build of the site: the post listings of the sidebar,   *)
(*              the home page, the recent-posts list, the archive page and *)
(*              the RSS feed, from one source directory.                   *)
(*  ServerSpec  the static file server with its fallback to index.html.    *)
(*  GallerySpec the galleries of one page (Gallery.vue): lightbox, image   *)
(*              index, key presses and the scroll lock on document.body.   *)
(*  ThemeSpec   the theme hook of the root document (useTheme): the inline *)
(*              script, the mount effects, the listbox and storage events. *)
(***************************************************************************)
EXTENDS Integers, Sequences, FiniteSets, TLC

VARIABLES
    \* ---- git-guard.sh ----
    stdin,            \* what the hook receives on standard input
    COMMAND,          \* the shell variable COMMAND
    pc,               \* the statement the script is at
    status,           \* exit status of the script (NoStatus while running)
    stdout,           \* lines written to standard output
    stderr,           \* lines written to standard error
    \* ---- AssemblyLine.vue ----
    materialQueue,
    outputWidgets,
    selectedMaterial,
    running,
    nextId,
    serialCounter,
    tickTimer,
    stations,
    activeTimers,     \* interval timers the browser currently holds
    mounted,          \* the component is mounted
    added,            \* observation: the materials addMaterial has queued, in order
    lastEvent,        \* observation: did the last handler run tick(), did it overwrite a part
    \* ---- the site build: post listings ----
    files,            \* the markdown files of the source directory
    sidebar,          \* items of the sidebar's Posts group
    homePosts,        \* the home page's list
    recentPosts,      \* the recent-posts list
    archivePosts,     \* the archive page's list
    feedItems,        \* items added to the RSS feed
    buildPc,          \* the step the build is at
    \* ---- the static file server ----
    dist,             \* the files of the built site
    request,          \* pathname of the last request ("" before the first)
    calls,            \* observation: the paths serveDir was asked for
    reply,            \* the response to the last request
    \* ---- Gallery.vue: the galleries of one page ----
    images,           \* props.images.length of each gallery
    showLightbox,
    currentImage,
    keydownListeners, \* galleries whose handleKeydown is registered on document
    bodyOverflow,     \* document.body.style.overflow
    pagePhase,        \* "setup", "mounted" or "left"
    lastInput,        \* observation: the last input the page handled
    \* ---- useTheme in the root document ----
    localTheme,       \* localStorage.theme
    prefersDark,      \* matchMedia("(prefers-color-scheme: dark)").matches
    darkClass,        \* document.documentElement has the class "dark"
    setting,
    initial,          \* initial.current
    pendingSetting,   \* a setSetting call not yet rendered
    listening,        \* the passive effect has added the listeners
    themePc,          \* the step the document is at
    storageEvent,     \* a storage event is queued for this document
    storedAtLoad,     \* observation: localStorage.theme when the document loaded
    touched           \* observation: the theme was changed after the mount

guardVars == <<stdin, COMMAND, pc, status, stdout, stderr>>
widgetVars == <<materialQueue, outputWidgets, selectedMaterial, running, nextId,
                serialCounter, tickTimer, stations, activeTimers, mounted,
                added, lastEvent>>
postsVars == <<files, sidebar, homePosts, recentPosts, archivePosts, feedItems, buildPc>>
serverVars == <<dist, request, calls, reply>>
galleryVars == <<images, showLightbox, currentImage, keydownListeners, bodyOverflow,
                 pagePhase, lastInput>>
themeVars == <<localTheme, prefersDark, darkClass, setting, initial, pendingSetting,
               listening, themePc, storageEvent, storedAtLoad, touched>>
vars == <<guardVars, widgetVars, postsVars, serverVars, galleryVars, themeVars>>

(***************************************************************************)
(* Bounds of the model.                                                    *)
(***************************************************************************)
MaxTokens == 4        \* pieces concatenated into an enumerated command
BigFill == 131072     \* bytes of trailing filler in a long command
MaxMaterials == 2     \* materials added to the widget's queue
MaxFiles == 3         \* markdown files in the source directory
MaxGalleries == 2     \* galleries on the page
MaxImages == 3        \* images of one gallery

(***************************************************************************)
(* Strings.  A command is [text, fill]: the characters of text, followed,  *)
(* when fill > 0, by a newline and one more line of fill letters 'a' (a    *)
(* line that contains none of the words the guard looks for).              *)
(***************************************************************************)
WordChars ==
    {"a","b","c","d","e","f","g","h","i","j","k","l","m","n","o","p","q","r",
     "s","t","u","v","w","x","y","z",
     "A","B","C","D","E","F","G","H","I","J","K","L","M","N","O","P","Q","R",
     "S","T","U","V","W","X","Y","Z",
     "0","1","2","3","4","5","6","7","8","9","_"}

CharAt(s, i) == IF i >= 1 /\ i <= Len(s) THEN SubSeq(s, i, i) ELSE ""

\* w stands in s at position i
StartsAt(s, i, w) == i >= 1 /\ i + Len(w) - 1 <= Len(s) /\ SubSeq(s, i, i + Len(w) - 1) = w

IsWordChar(s, i) == CharAt(s, i) \in WordChars

Unset == [text |-> "", fill |-> 0]

ByteLen(cmd) == Len(cmd.text) + (IF cmd.fill > 0 THEN 1 + cmd.fill ELSE 0)

(***************************************************************************)
(* grep -qE '\bgit\b.*\b(commit|push)\b|\bgit\b.*\breset\b.*--hard\b'      *)
(* The pattern is kept as written: a list of alternatives, each a list of  *)
(* atoms, matched by a backtracking matcher.                               *)
(***************************************************************************)
WB == [t |-> "wb"]
DotStar == [t |-> "dotstar"]
Lit(s) == [t |-> "lit", ss |-> {s}]
Alt(S) == [t |-> "lit", ss |-> S]

\* a \b that is missing after the subcommand: 'pushd' would match
PATTERN_NoTrailingBoundary ==
    << <<WB, Lit("git"), WB, DotStar, WB, Alt({"commit", "push"})>>,
       <<WB, Lit("git"), WB, DotStar, WB, Lit("reset"), WB, DotStar, Lit("--hard"), WB>> >>

\* --hard forgotten in the second alternative: every git reset is caught
PATTERN_ResetAlone ==
    << <<WB, Lit("git"), WB, DotStar, WB, Alt({"commit", "push"}), WB>>,
       <<WB, Lit("git"), WB, DotStar, WB, Lit("reset"), WB>> >>

PATTERN ==
    << <<WB, Lit("git"), WB, DotStar, WB, Alt({"commit", "push"}), WB>>,
       <<WB, Lit("git"), WB, DotStar, WB, Lit("reset"), WB, DotStar, Lit("--hard"), WB>> >>

\* \b: exactly one of the characters before and at position i is a word character
IsBoundary(s, i) == IsWordChar(s, i - 1) # IsWordChar(s, i)

RECURSIVE MatchHere(_, _, _, _)
MatchHere(re, k, s, i) ==
    IF k > Len(re) THEN TRUE
    ELSE LET a == re[k] IN
         CASE a.t = "wb" -> IsBoundary(s, i) /\ MatchHere(re, k + 1, s, i)
           [] a.t = "lit" ->
                \E w \in a.ss :
                    /\ StartsAt(s, i, w)
                    /\ MatchHere(re, k + 1, s, i + Len(w))
           [] a.t = "dotstar" ->
                \* . matches any character but the newline that ends the line
                \/ MatchHere(re, k + 1, s, i)
                \/ /\ i <= Len(s)
                   /\ CharAt(s, i) # "\n"
                   /\ MatchHere(re, k, s, i + 1)

\* grep: some line of the input has a substring the pattern matches
GrepMatches(s) ==
    \E n \in 1..Len(PATTERN) : \E i \in 1..(Len(s) + 1) : MatchHere(PATTERN[n], 1, s, i)

(***************************************************************************)
(* Standard inputs the hook is run on.                                     *)
(***************************************************************************)
Tokens == {"git", " commit", " push", " reset", " --hard", "d", "\n", " -C /p", "'"}

RECURSIVE Concat(_)
Concat(q) == IF q = <<>> THEN "" ELSE Head(q) \o Concat(Tail(q))

TokenCommands == {Concat(q) : q \in UNION {[1..n -> Tokens] : n \in 0..MaxTokens}}

\* git invoked with a blocked subcommand: what may stand before git, between
\* git and the subcommand, and after it
Prefixes == {"", "sleep 2 && ", "GIT_DIR=/tmp ", "cd /repo\n"}
Betweens == {" ", " -C /path ", " -c user.name=x ", " --no-pager ", " \\\n  "}
Subcommands == {"commit", "push", "reset --hard", "reset -q --hard"}
Args == {"", " -m 'x'", " --force origin main", " HEAD~1"}
GitInvocations ==
    {p \o "git" \o b \o c \o a : p \in Prefixes, b \in Betweens, c \in Subcommands, a \in Args}

\* git invoked with another subcommand
OtherSubcommands == {"status", "diff", "log", "add", "stash", "fetch", "reset"}
OtherArgs == {"", " HEAD", " --oneline -10", " .", " origin", " --soft HEAD~1",
              " push", " --grep=commit", " commit.txt", " committed/"}
OtherGitCommands == {"git " \o c \o a : c \in OtherSubcommands, a \in OtherArgs}

\* the commands of git-guard.test.sh and of the article
PythonEmbedded == "python3 -c \"import subprocess; subprocess.run(['git', 'push'])\""
TestBlocked ==
    {"git commit -m 'whatever'",
     "git -C /Users/steve/Work/DarwinKit commit -m 'chore: something'",
     "git -C /Users/steve/Work/DarwinKit push",
     "git push origin main",
     "git push --force origin main",
     "git reset --hard HEAD~1",
     "sleep 2 && git -C /some/path commit -m 'sneaky'",
     "git -c user.name=x commit --amend",
     "git commit --allow-empty -m 'empty'",
     "GIT_DIR=/tmp git commit -m 'test'"}
TestAllowed ==
    {"git status", "git diff HEAD", "git log --oneline -10", "git add .", "git stash",
     "git fetch origin", "pushd /tmp && popd", "grep -r 'commit' src/",
     "ls committed-files/"}
DocExamples ==
    TestBlocked \cup TestAllowed \cup
    {PythonEmbedded, "git --no-pager push --force-with-lease", "python3 deploy.py",
     "git reset --hard && pushd /tmp", "-n"}

CommandTexts == TokenCommands \cup GitInvocations \cup OtherGitCommands \cup DocExamples

StdinKinds ==
    {"unparseable",     \* not JSON
     "not_object",      \* JSON, but . or .tool_input cannot be indexed: "x", [1]
     "empty_input",     \* no input at all
     "no_command",      \* {} or {"tool_input":{}}
     "null_command",    \* {"tool_input":{"command":null}}
     "false_command",   \* {"tool_input":{"command":false}}
     "string_command"}  \* {"tool_input":{"command":"..."}}

StdinSet ==
    {[kind |-> k, text |-> "", fill |-> 0] : k \in StdinKinds \ {"string_command"}}
    \cup {[kind |-> "string_command", text |-> t, fill |-> 0] : t \in CommandTexts}
    \cup {[kind |-> "string_command", text |-> t, fill |-> BigFill] : t \in DocExamples}

(***************************************************************************)
(* git-guard.sh                                                            *)
(***************************************************************************)
NoStatus == -1
PIPE_CAPACITY == 65536

BlockedLines == <<"Blocked: prohibited git operation",
                  "Stop vibe coding and do it yourself">>

\* $(...) removes the trailing newlines of the output it captures
RECURSIVE StripTrailingNewlines(_)
StripTrailingNewlines(s) ==
    IF Len(s) > 0 /\ CharAt(s, Len(s)) = "\n"
    THEN StripTrailingNewlines(SubSeq(s, 1, Len(s) - 1))
    ELSE s

\* jq -r '.tool_input.command // empty': [status, out, err]
Jq(in) ==
    CASE in.kind = "unparseable" ->
            [status |-> 2, out |-> Unset, err |-> <<"jq: error: parse error">>]
      [] in.kind = "not_object" ->
            [status |-> 5, out |-> Unset, err |-> <<"jq: error: Cannot index">>]
      [] in.kind \in {"empty_input", "no_command", "null_command", "false_command"} ->
            [status |-> 0, out |-> Unset, err |-> <<>>]
      [] in.kind = "string_command" ->
            [status |-> 0,
             out |-> [text |-> IF in.fill > 0 THEN in.text
                               ELSE StripTrailingNewlines(in.text),
                      fill |-> in.fill],
             err |-> <<>>]

\* [[ -z "$COMMAND" ]]
IsEmpty(cmd) == ByteLen(cmd) = 0

\* echo "$COMMAND": an argument that is only an option prints no text
EchoOptions == {"-n", "-e", "-E", "-ne", "-en"}
EchoText(cmd) == IF cmd.fill = 0 /\ cmd.text \in EchoOptions THEN "" ELSE cmd.text
EchoBytes(cmd) == IF cmd.fill = 0 /\ cmd.text \in EchoOptions THEN 1 ELSE ByteLen(cmd) + 1

\* exit statuses echo can end with when grep -q has matched: grep exits at the
\* first matching line; echo is still writing if its output did not fit the pipe
EchoStatuses(cmd, matched) ==
    IF matched /\ EchoBytes(cmd) > PIPE_CAPACITY
    THEN {0, 141, 1}     \* written in time, killed by SIGPIPE, write error EPIPE
    ELSE {0}

\* set -o pipefail: the rightmost non-zero status, 0 if there is none
PipelineStatus(echoStatus, grepStatus) ==
    IF grepStatus # 0 THEN grepStatus ELSE echoStatus

GuardInit ==
    /\ stdin \in StdinSet
    /\ COMMAND = Unset
    /\ pc = "jq"
    /\ status = NoStatus
    /\ stdout = <<>>
    /\ stderr = <<>>

\* line 4: COMMAND=$(jq -r '.tool_input.command // empty'), under set -e
RunJq ==
    /\ UNCHANGED <<widgetVars, postsVars, serverVars, galleryVars, themeVars>>
    /\ pc = "jq"
    /\ LET r == Jq(stdin) IN
         /\ stderr' = stderr \o r.err
         /\ IF r.status # 0
            THEN /\ pc' = "done"
                 /\ status' = r.status
                 /\ COMMAND' = COMMAND
            ELSE /\ pc' = "test"
                 /\ status' = status
                 /\ COMMAND' = r.out
    /\ UNCHANGED <<stdin, stdout>>

\* line 5: [[ -z "$COMMAND" ]] && exit 0
TestEmpty ==
    /\ UNCHANGED <<widgetVars, postsVars, serverVars, galleryVars, themeVars>>
    /\ pc = "test"
    /\ IF IsEmpty(COMMAND)
       THEN pc' = "done" /\ status' = 0
       ELSE pc' = "grep" /\ status' = status
    /\ UNCHANGED <<stdin, COMMAND, stdout, stderr>>

\* line 7: if echo "$COMMAND" | grep -qE '...'; then -- and, when the condition
\* fails, the end of the script (line 11), whose status is that of the if: 0
RunPipeline ==
    /\ UNCHANGED <<widgetVars, postsVars, serverVars, galleryVars, themeVars>>
    /\ pc = "grep"
    /\ LET matched == GrepMatches(EchoText(COMMAND))
           grepStatus == IF matched THEN 0 ELSE 1
       IN \E echoStatus \in EchoStatuses(COMMAND, matched) :
            /\ stderr' = IF echoStatus = 1
                         THEN stderr \o <<"echo: write error: Broken pipe">>
                         ELSE stderr
            /\ IF PipelineStatus(echoStatus, grepStatus) = 0
               THEN pc' = "echo1" /\ status' = status
               ELSE pc' = "done" /\ status' = 0
    /\ UNCHANGED <<stdin, COMMAND, stdout>>

\* line 8: echo "Blocked: prohibited git operation" >&2
EchoBlocked ==
    /\ UNCHANGED <<widgetVars, postsVars, serverVars, galleryVars, themeVars>>
    /\ pc = "echo1"
    /\ stderr' = Append(stderr, BlockedLines[1])
    /\ pc' = "echo2"
    /\ UNCHANGED <<stdin, COMMAND, status, stdout>>

\* line 9: echo "Stop vibe coding and do it yourself" >&2
EchoStop ==
    /\ UNCHANGED <<widgetVars, postsVars, serverVars, galleryVars, themeVars>>
    /\ pc = "echo2"
    /\ stderr' = Append(stderr, BlockedLines[2])
    /\ pc' = "exit2"
    /\ UNCHANGED <<stdin, COMMAND, status, stdout>>

\* line 10: exit 2
ExitBlocked ==
    /\ UNCHANGED <<widgetVars, postsVars, serverVars, galleryVars, themeVars>>
    /\ pc = "exit2"
    /\ status' = 2
    /\ pc' = "done"
    /\ UNCHANGED <<stdin, COMMAND, stdout, stderr>>


(***************************************************************************)
(* AssemblyLine.vue                                                        *)
(***************************************************************************)
Null == [null |-> TRUE]
NullTimer == 0
StationNames == <<"Materials", "Cut", "Stamp", "Paint", "Inspect">>
MaterialTypes == {"steel", "aluminum", "titanium"}
Lengths == {7, 12}      \* values Math.random() * 20 + 5 can take

COLORS(type) ==
    CASE type = "steel" -> "blue"
      [] type = "aluminum" -> "silver"
      [] type = "titanium" -> "black"
      [] OTHER -> "grey"

\* Math.max written for Math.min
Min_Max(a, b) == IF a >= b THEN a ELSE b

Min(a, b) == IF a <= b THEN a ELSE b

\* String(n).padStart(4, '0')
RECURSIVE PadStart(_, _, _)
PadStart(str, n, fill) == IF Len(str) >= n THEN str ELSE PadStart(fill \o str, n, fill)

\* n.toFixed(1), for the whole numbers the model draws
ToFixed1(n) == ToString(n) \o ".0"

\* The working state of one tick() call: stations s, queue q, output out,
\* serialCounter sc; hit records that enterStation wrote over a part.
clearStation_Forgotten(w, index) == w

clearStation(w, index) ==
    [w EXCEPT !.s[index].part = Null, !.s[index].display = ""]

\* the Stamp station reading serialCounter without the ++
enterStation_NoIncrement(w, index, part0) ==
    LET part == [part0 EXCEPT !.ticksLeft = 1]
        hit == w.hit \/ w.s[index].part # Null
    IN CASE index = 0 ->
              [w EXCEPT !.s[0].display = part.type \o " (" \o ToFixed1(part.length) \o ")",
                        !.s[0].part = part,
                        !.hit = hit]
         [] index = 1 ->
              LET p == [part EXCEPT !.size = Min(part.length, 10)] IN
              [w EXCEPT !.s[1].display = "size: " \o ToFixed1(p.size),
                        !.s[1].part = p,
                        !.hit = hit]
         [] index = 2 ->
              LET p == [part EXCEPT !.serial = "WDG-" \o PadStart(ToString(w.sc), 4, "0")] IN
              [w EXCEPT !.s[2].display = p.serial,
                        !.s[2].part = p,
                        !.hit = hit]
         [] index = 3 ->
              LET p == [part EXCEPT !.color = COLORS(part.type)] IN
              [w EXCEPT !.s[3].display = p.color,
                        !.s[3].part = p,
                        !.hit = hit]
         [] index = 4 ->
              LET p == [part EXCEPT !.passed = (part.size >= 8)] IN
              [w EXCEPT !.s[4].display = IF p.passed THEN "PASS" ELSE "FAIL",
                        !.s[4].part = p,
                        !.hit = hit]

enterStation(w, index, part0) ==
    LET part == [part0 EXCEPT !.ticksLeft = 1]
        hit == w.hit \/ w.s[index].part # Null
    IN CASE index = 0 ->
              [w EXCEPT !.s[0].display = part.type \o " (" \o ToFixed1(part.length) \o ")",
                        !.s[0].part = part,
                        !.hit = hit]
         [] index = 1 ->
              LET p == [part EXCEPT !.size = Min(part.length, 10)] IN
              [w EXCEPT !.s[1].display = "size: " \o ToFixed1(p.size),
                        !.s[1].part = p,
                        !.hit = hit]
         [] index = 2 ->
              LET p == [part EXCEPT !.serial = "WDG-" \o PadStart(ToString(w.sc), 4, "0")] IN
              [w EXCEPT !.sc = w.sc + 1,
                        !.s[2].display = p.serial,
                        !.s[2].part = p,
                        !.hit = hit]
         [] index = 3 ->
              LET p == [part EXCEPT !.color = COLORS(part.type)] IN
              [w EXCEPT !.s[3].display = p.color,
                        !.s[3].part = p,
                        !.hit = hit]
         [] index = 4 ->
              LET p == [part EXCEPT !.passed = (part.size >= 8)] IN
              [w EXCEPT !.s[4].display = IF p.passed THEN "PASS" ELSE "FAIL",
                        !.s[4].part = p,
                        !.hit = hit]

\* tick, step 1: decrement ticks for all processing parts
Decrement(w) ==
    [w EXCEPT !.s = [i \in 0..4 |->
        IF w.s[i].part # Null /\ w.s[i].part.ticksLeft > 0
        THEN [w.s[i] EXCEPT !.part.ticksLeft = @ - 1]
        ELSE w.s[i]]]

\* tick, step 2a: station 4 done -> output
ToOutput(w) ==
    IF w.s[4].part # Null /\ w.s[4].part.ticksLeft = 0
    THEN LET p == w.s[4].part IN
         clearStation([w EXCEPT !.out = Append(w.out,
                          [type |-> p.type, size |-> p.size, serial |-> p.serial,
                           color |-> p.color, passed |-> p.passed])], 4)
    ELSE w

\* tick, step 2b, one iteration: advance station i into the next one if it is empty
Advance(w, i) ==
    IF w.s[i].part # Null /\ w.s[i].part.ticksLeft = 0 /\ w.s[i + 1].part = Null
    THEN enterStation(clearStation(w, i), i + 1, w.s[i].part)
    ELSE w

\* the loop run from station 0 upwards instead of from station 3 downwards
AdvanceAll_LeftToRight(w) == Advance(Advance(Advance(Advance(w, 0), 1), 2), 3)

\* for (let i = 3; i >= 0; i--)
AdvanceAll(w) == Advance(Advance(Advance(Advance(w, 3), 2), 1), 0)

NewPart(m) ==
    [id |-> m.id, type |-> m.type, length |-> m.length,
     size |-> 0, serial |-> "", color |-> "", passed |-> FALSE, ticksLeft |-> 0]

\* the head of the queue read but not removed: materialQueue[0] for shift()
Feed_NoShift(w) ==
    IF w.s[0].part = Null /\ Len(w.q) > 0
    THEN enterStation(w, 0, NewPart(Head(w.q)))
    ELSE w

\* the newest material taken: pop() for shift()
Feed_Pop(w) ==
    IF w.s[0].part = Null /\ Len(w.q) > 0
    THEN enterStation([w EXCEPT !.q = SubSeq(w.q, 1, Len(w.q) - 1)], 0,
                      NewPart(w.q[Len(w.q)]))
    ELSE w

\* tick, step 3: feed from queue into station 0
Feed(w) ==
    IF w.s[0].part = Null /\ Len(w.q) > 0
    THEN LET m == Head(w.q) IN
         enterStation([w EXCEPT !.q = Tail(w.q)], 0, NewPart(m))
    ELSE w

tick(w) ==
    CHOOSE r \in {Feed(a) : a \in {AdvanceAll(t) : t \in
                     {ToOutput(d) : d \in {Decrement(w)}}}} : TRUE

\* setInterval: a handle (a positive number) that no active timer has
setInterval(timers) ==
    CHOOSE h \in 1..(Cardinality(timers) + 1) : h \notin timers

\* clearInterval that cancels nothing
clearInterval_Noop(timers, h) == timers

clearInterval(timers, h) == timers \ {h}

Work == [s |-> stations, q |-> materialQueue, out |-> outputWidgets,
         sc |-> serialCounter, hit |-> FALSE]

WidgetInit ==
    /\ materialQueue = <<>>
    /\ outputWidgets = <<>>
    /\ selectedMaterial = "steel"
    /\ running = FALSE
    /\ nextId = 0
    /\ serialCounter = 1
    /\ tickTimer = NullTimer
    /\ stations = [i \in 0..4 |-> [name |-> StationNames[i + 1], part |-> Null, display |-> ""]]
    /\ activeTimers = {}
    /\ mounted = TRUE
    /\ added = <<>>
    /\ lastEvent = [tick |-> FALSE, hit |-> FALSE]

\* <select v-model="selectedMaterial">
SelectMaterial ==
    /\ UNCHANGED <<guardVars, postsVars, serverVars, galleryVars, themeVars>>
    /\ mounted
    /\ \E t \in MaterialTypes :
         /\ t # selectedMaterial
         /\ selectedMaterial' = t
    /\ lastEvent' = [tick |-> FALSE, hit |-> FALSE]
    /\ UNCHANGED <<materialQueue, outputWidgets, running, nextId, serialCounter,
                   tickTimer, stations, activeTimers, mounted, added>>

\* the material put at the head of the queue: unshift() for push()
AddMaterial_Unshift ==
    /\ UNCHANGED <<guardVars, postsVars, serverVars, galleryVars, themeVars>>
    /\ mounted
    /\ nextId < MaxMaterials
    /\ \E len \in Lengths :
         LET m == [id |-> nextId, type |-> selectedMaterial, length |-> len] IN
         /\ materialQueue' = <<m>> \o materialQueue
         /\ added' = Append(added, m)
    /\ nextId' = nextId + 1
    /\ lastEvent' = [tick |-> FALSE, hit |-> FALSE]
    /\ UNCHANGED <<outputWidgets, selectedMaterial, running, serialCounter, tickTimer,
                   stations, activeTimers, mounted>>

AddMaterial ==
    /\ UNCHANGED <<guardVars, postsVars, serverVars, galleryVars, themeVars>>
    /\ mounted
    /\ nextId < MaxMaterials
    /\ \E len \in Lengths :
         LET m == [id |-> nextId, type |-> selectedMaterial, length |-> len] IN
         /\ materialQueue' = Append(materialQueue, m)
         /\ added' = Append(added, m)
    /\ nextId' = nextId + 1
    /\ lastEvent' = [tick |-> FALSE, hit |-> FALSE]
    /\ UNCHANGED <<outputWidgets, selectedMaterial, running, serialCounter, tickTimer,
                   stations, activeTimers, mounted>>

\* the effect of one tick() call on the component's state
RunTick(ticked) ==
    LET w == tick(Work) IN
    /\ stations' = w.s
    /\ materialQueue' = w.q
    /\ outputWidgets' = w.out
    /\ serialCounter' = w.sc
    /\ lastEvent' = [tick |-> ticked, hit |-> w.hit]

\* toggle() when the line is stopped: start it
ToggleStart ==
    /\ UNCHANGED <<guardVars, postsVars, serverVars, galleryVars, themeVars>>
    /\ mounted
    /\ ~running
    /\ running' = TRUE
    /\ RunTick(TRUE)
    /\ tickTimer' = setInterval(activeTimers)
    /\ activeTimers' = activeTimers \cup {setInterval(activeTimers)}
    /\ UNCHANGED <<selectedMaterial, nextId, mounted, added>>

\* a toggle() that calls tick() before it looks at running
ToggleStop_Ticks ==
    /\ UNCHANGED <<guardVars, postsVars, serverVars, galleryVars, themeVars>>
    /\ mounted
    /\ running
    /\ running' = FALSE
    /\ RunTick(FALSE)
    /\ IF tickTimer # NullTimer
       THEN /\ activeTimers' = clearInterval(activeTimers, tickTimer)
            /\ tickTimer' = NullTimer
       ELSE UNCHANGED <<activeTimers, tickTimer>>
    /\ UNCHANGED <<selectedMaterial, nextId, mounted, added>>

\* toggle() when the line is running: stop it
ToggleStop ==
    /\ UNCHANGED <<guardVars, postsVars, serverVars, galleryVars, themeVars>>
    /\ mounted
    /\ running
    /\ running' = FALSE
    /\ IF tickTimer # NullTimer
       THEN /\ activeTimers' = clearInterval(activeTimers, tickTimer)
            /\ tickTimer' = NullTimer
       ELSE UNCHANGED <<activeTimers, tickTimer>>
    /\ lastEvent' = [tick |-> FALSE, hit |-> FALSE]
    /\ UNCHANGED <<materialQueue, outputWidgets, selectedMaterial, nextId, serialCounter,
                   stations, mounted, added>>

\* the interval timer fires: setInterval(tick, TICK_MS)
TimerTick ==
    /\ UNCHANGED <<guardVars, postsVars, serverVars, galleryVars, themeVars>>
    /\ activeTimers # {}
    /\ RunTick(TRUE)
    /\ UNCHANGED <<selectedMaterial, running, nextId, tickTimer, activeTimers,
                   mounted, added>>

\* an unmount hook that leaves the interval running
Unmount_NoCleanup ==
    /\ UNCHANGED <<guardVars, postsVars, serverVars, galleryVars, themeVars>>
    /\ mounted
    /\ mounted' = FALSE
    /\ lastEvent' = [tick |-> FALSE, hit |-> FALSE]
    /\ UNCHANGED <<materialQueue, outputWidgets, selectedMaterial, running, nextId,
                   serialCounter, tickTimer, stations, activeTimers, added>>

\* onUnmounted
Unmount ==
    /\ UNCHANGED <<guardVars, postsVars, serverVars, galleryVars, themeVars>>
    /\ mounted
    /\ mounted' = FALSE
    /\ activeTimers' = IF tickTimer # NullTimer
                       THEN clearInterval(activeTimers, tickTimer)
                       ELSE activeTimers
    /\ lastEvent' = [tick |-> FALSE, hit |-> FALSE]
    /\ UNCHANGED <<materialQueue, outputWidgets, selectedMaterial, running, nextId,
                   serialCounter, tickTimer, stations, added>>

(***************************************************************************)
(* Post listings.  The site's source directory is a list of markdown files *)
(* [path, content], content being the lines of the file.  The sidebar      *)
(* (generateSidebar.js) and the home page list (theme/data/posts.data.js)  *)
(* read the directory themselves; the RSS feed (rss.mjs), the recent-posts *)
(* list and the archive list (posts.data.js) go through VitePress's        *)
(* createContentLoader.                                                    *)
(***************************************************************************)
\* const x = v; e  is written  The({e : x \in {v}}): v is computed once
The(S) == CHOOSE x \in S : TRUE

None == [has |-> FALSE, v |-> ""]
Some(s) == [has |-> TRUE, v |-> s]

\* JavaScript truthiness of a string-or-undefined value
Truthy(f) == f.has /\ f.v # ""

\* String.prototype.includes / endsWith / indexOf (1-based, 0 when absent)
includes(s, w) == \E i \in 1..Len(s) : StartsAt(s, i, w)
endsWith(s, w) == StartsAt(s, Len(s) - Len(w) + 1, w)
indexOf(s, w) ==
    IF includes(s, w) THEN CHOOSE i \in 1..Len(s) :
                              /\ StartsAt(s, i, w)
                              /\ \A j \in 1..(i - 1) : ~StartsAt(s, j, w)
    ELSE 0

\* s.substring from character i (1-based) to the end
From(s, i) == IF i > Len(s) THEN "" ELSE SubSeq(s, i, Len(s))
\* the first n characters of s
Upto(s, n) == IF n < 1 THEN "" ELSE SubSeq(s, 1, n)

\* s.replace(w, r) with a string pattern: the first occurrence only
replace(s, w, r) ==
    LET i == indexOf(s, w) IN
    IF i = 0 THEN s ELSE Upto(s, i - 1) \o r \o From(s, i + Len(w))

\* s.split('/').pop()
lastSegment(s) ==
    LET slashes == {i \in 1..Len(s) : CharAt(s, i) = "/"} IN
    IF slashes = {} THEN s
    ELSE From(s, (CHOOSE i \in slashes : \A j \in slashes : j <= i) + 1)

\* content.match(/^---\n([\s\S]*?)\n---/): the lines between the first line,
\* which must be ---, and the first later line (from the third on) that
\* starts with ---; <<>> inside has: FALSE when there is no match
frontmatterMatch(content) ==
    LET closing == {j \in 3..Len(content) : StartsAt(content[j], 1, "---")} IN
    IF Len(content) >= 3 /\ content[1] = "---" /\ closing # {}
    THEN [has |-> TRUE,
          lines |-> SubSeq(content, 2,
                           (CHOOSE j \in closing : \A k \in closing : j <= k) - 1)]
    ELSE [has |-> FALSE, lines |-> <<>>]

RECURSIVE skipSpace(_)
\* \s* at the start of s
skipSpace(s) ==
    IF CharAt(s, 1) \in {" ", "\t"} THEN skipSpace(From(s, 2)) ELSE s

\* "? at the start of rest
afterQuote(rest) == IF CharAt(rest, 1) = "\"" THEN From(rest, 2) ELSE rest

\* ([^"]*)"?$ on t, the line after key, colon, blanks and opening quote
valueMatch(key, t) ==
    IF \A i \in 1..(Len(t) - 1) : CharAt(t, i) # "\""
    THEN [match |-> TRUE, key |-> key,
          value |-> IF CharAt(t, Len(t)) = "\"" THEN Upto(t, Len(t) - 1) ELSE t]
    ELSE [match |-> FALSE, key |-> "", value |-> ""]

\* (\w+): with the colon at character c
keyMatch(line, c) ==
    IF c > 1 /\ \A i \in 1..(c - 1) : IsWordChar(line, i)
    THEN valueMatch(Upto(line, c - 1), afterQuote(skipSpace(From(line, c + 1))))
    ELSE [match |-> FALSE, key |-> "", value |-> ""]

\* line.match(/^(\w+):\s*"?([^"]*)"?$/)
lineMatch(line) == The({keyMatch(line, c) : c \in {indexOf(line, ":")}})

\* frontmatter[key] after the forEach over the lines: the last line that sets it
field(lines, key) ==
    The({LET idx == {i \in 1..Len(lines) : match[i].match /\ match[i].key = key}
         IN IF idx = {} THEN None
            ELSE Some(match[CHOOSE i \in idx : \A j \in idx : j <= i].value)
         : match \in {[i \in 1..Len(lines) |-> lineMatch(lines[i])]}})

Digits == <<"0", "1", "2", "3", "4", "5", "6", "7", "8", "9">>
IsDigit(c) == \E n \in 1..10 : Digits[n] = c
DigitValue(c) == (CHOOSE n \in 1..10 : Digits[n] = c) - 1
Number2(s, i) == DigitValue(CharAt(s, i)) * 10 + DigitValue(CharAt(s, i + 1))

\* new Date(s) for a date-only string YYYY-MM-DD; anything else the model
\* draws is not a date and gives an Invalid Date (time value NaN).  The time
\* value is counted in days of a 31-day-month calendar instead of
\* milliseconds: the order of two dates is the same.
NewDate(s) ==
    IF /\ Len(s) = 10
       /\ CharAt(s, 5) = "-" /\ CharAt(s, 8) = "-"
       /\ \A i \in {1, 2, 3, 4, 6, 7, 9, 10} : IsDigit(CharAt(s, i))
       /\ Number2(s, 6) \in 1..12
       /\ Number2(s, 9) \in 1..31
    THEN [nan |-> FALSE,
          t |-> ((Number2(s, 1) * 100 + Number2(s, 3)) * 12 + Number2(s, 6)) * 31
                 + Number2(s, 9)]
    ELSE [nan |-> TRUE, t |-> 0]

\* (a, b) => new Date(b.date) - new Date(a.date), then the coercion sort
\* applies to what comparefn returns: NaN counts as +0
byDateDesc(a, b) ==
    The({IF d[1].nan \/ d[2].nan THEN 0 ELSE d[2].t - d[1].t
         : d \in {<<NewDate(a.date), NewDate(b.date)>>}})

Reverse(s) == [i \in 1..Len(s) |-> s[Len(s) + 1 - i]]

RECURSIVE runEnd(_, _, _)
\* Array.prototype.sort in V8 (TimSort, arrays shorter than 32): the run that
\* starts the array ends at the first element that breaks its direction
runEnd(a, i, descending) ==
    IF i = Len(a) THEN i
    ELSE The({IF (descending /\ order >= 0) \/ (~descending /\ order < 0) THEN i
              ELSE runEnd(a, i + 1, descending)
              : order \in {byDateDesc(a[i + 1], a[i])}})

\* CountAndMakeRun: length of the first run, a descending run reversed
countAndMakeRun(a) ==
    The({The({[run |-> n,
               a |-> IF descending
                     THEN Reverse(SubSeq(a, 1, n)) \o SubSeq(a, n + 1, Len(a))
                     ELSE a]
              : n \in {runEnd(a, 2, descending)}})
         : descending \in {byDateDesc(a[2], a[1]) < 0}})

RECURSIVE binarySearch(_, _, _, _)
\* where pivot goes among a[left+1 .. right] (indices counted from 0)
binarySearch(a, pivot, left, right) ==
    IF left >= right THEN left
    ELSE LET mid == left + ((right - left) \div 2) IN
         IF byDateDesc(pivot, a[mid + 1]) < 0
         THEN binarySearch(a, pivot, left, mid)
         ELSE binarySearch(a, pivot, mid + 1, right)

RECURSIVE binaryInsertionSort(_, _)
\* BinaryInsertionSort: a[1..start] is sorted, the rest is inserted one by one
binaryInsertionSort(a, start) ==
    IF start >= Len(a) THEN a
    ELSE The({The({binaryInsertionSort(b, start + 1)
                   : b \in {SubSeq(a, 1, left) \o <<a[start + 1]>>
                              \o SubSeq(a, left + 1, start)
                              \o SubSeq(a, start + 2, Len(a))}})
              : left \in {binarySearch(a, a[start + 1], 0, start)}})

\* posts.sort(comparefn)
sort(a) ==
    IF Len(a) < 2 THEN a
    ELSE The({binaryInsertionSort(first.a, first.run) : first \in {countAndMakeRun(a)}})

\* readdirSync(postsDir).filter(file => file.endsWith('.md')): is f an entry
\* of the source directory itself, with a name that ends in .md
IsEntry(f) == ~includes(f.path, "/") /\ endsWith(f.path, ".md")

\* const excludeFiles = [...]
excludeFiles ==
    {"index.md", "about.md", "archive.md", "work-with-me.md", "resume.md",
     "markdown-examples.md", "api-examples.md"}

\* if (frontmatter.date && frontmatter.title) posts.push({...}): the post
\* pushed for file, has: FALSE when nothing is pushed
pushed(file, fm, slash) ==
    IF Truthy(fm.date) /\ Truthy(fm.title)
    THEN [has |-> TRUE,
          post |-> [title |-> fm.title.v,
                    description |-> IF Truthy(fm.description) THEN fm.description.v ELSE "",
                    date |-> fm.date.v,
                    url |-> "/" \o replace(file, ".md", "") \o slash]]
    ELSE [has |-> FALSE, post |-> [title |-> "", description |-> "", date |-> "",
                                   url |-> ""]]

\* the filter on the directory's entries and the body of the for loop of
\* getAllPosts, for one file
postOf(f, slash) ==
    The({IF IsEntry(f) /\ f.path \notin excludeFiles /\ m.has
         THEN pushed(f.path,
                     [k \in {"title", "date", "description"} |-> field(m.lines, k)],
                     slash)
         ELSE [has |-> FALSE, post |-> [title |-> "", description |-> "", date |-> "",
                                        url |-> ""]]
         : m \in {frontmatterMatch(f.content)}})

\* getAllPosts: readdirSync, the loop and the sort.  slash is the "/" the
\* home page's copy puts after the url; its reading-time estimate is not
\* carried.
getAllPosts(fs, slash) ==
    The({sort([i \in 1..Len(posts) |-> posts[i].post])
         : posts \in {SelectSeq([i \in 1..Len(fs) |-> postOf(fs[i], slash)],
                                LAMBDA p : p.has)}})

generateSidebar(fs) ==
    The({[i \in 1..Len(posts) |-> [text |-> posts[i].title, link |-> posts[i].url]]
         : posts \in {getAllPosts(fs, "")}})

\* createContentLoader(pattern): does the glob, taken from the source
\* directory, match the file
matches(pattern, path) ==
    /\ endsWith(path, ".md")
    /\ IF pattern = "*.md" THEN ~includes(path, "/")
       ELSE StartsAt(path, 1, "posts/") /\ ~includes(From(path, 7), "/")

\* the url the loader gives a page: index.md names its directory, .md becomes
\* .html (the site's config does not set cleanUrls)
pageUrl(path) ==
    "/" \o (IF path = "index.md" \/ endsWith(path, "/index.md")
            THEN Upto(path, Len(path) - 8)
            ELSE Upto(path, Len(path) - 3) \o ".html")

\* the frontmatter the loader reads from a file.  For the lines the model
\* draws (key: value and key: "value") the YAML reader gives the strings the
\* regex of getAllPosts gives.
matter(content) ==
    The({[title |-> field(m.lines, "title"), date |-> field(m.lines, "date")]
         : m \in {frontmatterMatch(content)}})

\* rawData: the pages handed to transform
rawData(fs, pattern) ==
    The({[i \in 1..Len(matched) |->
            [url |-> pageUrl(matched[i].path), frontmatter |-> matter(matched[i].content)]]
         : matched \in {SelectSeq(fs, LAMBDA f : matches(pattern, f.path))}})

\* .sort((a, b) => new Date(b.frontmatter.date).getTime()
\*                 - new Date(a.frontmatter.date).getTime())
sortPages(pages) ==
    The({[i \in 1..Len(sorted) |-> sorted[i].page]
         : sorted \in {sort([i \in 1..Len(pages) |->
                              [date |-> pages[i].frontmatter.date.v, page |-> pages[i]]])}})

\* slice(0, n)
slice(s, n) == IF Len(s) <= n THEN s ELSE SubSeq(s, 1, n)

siteUrl == "https://steve-adams.me"

\* rss.mjs: const excludePages = [...]
feedExcludePages == {"/", "/about", "/archive", "/work-with-me", "/resume"}

\* page.url.replace(/\.html$/, "")
withoutHtml(url) == IF endsWith(url, ".html") THEN Upto(url, Len(url) - 5) ELSE url

\* genFeed: the loader's transform, then one addItem for each post
genFeed(fs) ==
    The({[i \in 1..Len(posts) |->
            [title |-> posts[i].frontmatter.title,
             link |-> siteUrl \o posts[i].url,
             date |-> posts[i].frontmatter.date.v]]
         : posts \in {sortPages(SelectSeq(rawData(fs, "*.md"),
                        LAMBDA page : /\ withoutHtml(page.url) \notin feedExcludePages
                                      /\ Truthy(page.frontmatter.date)))}})

\* the recent-posts loader: const excludePages = [...]
recentExcludePages ==
    {"index.md", "about.md", "archive.md", "markdown-examples.md", "api-examples.md"}

\* the recent-posts loader's transform; its archive links by year are not
\* carried
recentPostsOf(fs) ==
    The({[i \in 1..Len(recent) |->
            [text |-> recent[i].frontmatter.title, link |-> recent[i].url]]
         : recent \in {slice(sortPages(SelectSeq(rawData(fs, "posts/*.md"),
                         LAMBDA page :
                            /\ (lastSegment(page.url) \o ".md") \notin recentExcludePages
                            /\ Truthy(page.frontmatter.date))), 5)}})

\* posts.data.js of the archive page: const excludePages = [...]
archiveExcludePages ==
    {"index.md", "about.md", "archive.md", "work-with-me.md", "resume.md"}

\* posts.data.js of the archive page: transform
archivePostsOf(fs) ==
    sortPages(SelectSeq(rawData(fs, "*.md"),
                 LAMBDA page : /\ (lastSegment(page.url) \o ".md") \notin archiveExcludePages
                               /\ Truthy(page.frontmatter.date)))

\* ---- the source directories the model builds the site from ----
PathPool ==
    <<"about.md", "archive.md", "coho.md", "index.md", "posts/about.md",
      "resume.md", "use-server.md", "work-with-me.md", "xstate.md">>

NonPostPages == {"index.md", "about.md", "archive.md", "work-with-me.md", "resume.md"}

Dated2023 == <<"---", "title: \"Old post\"", "date: \"2023-03-01\"", "---", "Text.">>
Dated2024 == <<"---", "title: New post", "date: 2024-06-01",
               "description: \"Newer\"", "---", "Text.">>
DatedTBD == <<"---", "title: \"Draft\"", "date: \"TBD\"", "---", "Text.">>
NoFrontmatter == <<"# Notes", "Text.">>
NoTitle == <<"---", "date: \"2022-01-15\"", "---", "Text.">>
NoDate == <<"---", "title: \"Resume\"", "slug: \"resume\"", "---", "Text.">>

Contents == {Dated2023, Dated2024, DatedTBD, NoFrontmatter, NoTitle, NoDate}
PageContents == {Dated2023, NoDate}

\* the files of S with contents c, in the order the file system lists them
\* (by name)
listOf(S, c) ==
    LET kth(k) == CHOOSE i \in S : Cardinality({j \in S : j < i}) = k - 1 IN
    [k \in 1..Cardinality(S) |-> [path |-> PathPool[kth(k)], content |-> c[kth(k)]]]

FileLists ==
    UNION {{listOf(S, c) :
              c \in {c \in [S -> Contents] :
                       \A i \in S : PathPool[i] \in NonPostPages => c[i] \in PageContents}} :
           S \in {S \in SUBSET (1..Len(PathPool)) : Cardinality(S) <= MaxFiles}}

PostsIdle ==
    /\ files = <<>>
    /\ sidebar = <<>>
    /\ homePosts = <<>>
    /\ recentPosts = <<>>
    /\ archivePosts = <<>>
    /\ feedItems = <<>>
    /\ buildPc = "config"

PostsInit ==
    /\ files \in FileLists
    /\ sidebar = <<>>
    /\ homePosts = <<>>
    /\ recentPosts = <<>>
    /\ archivePosts = <<>>
    /\ feedItems = <<>>
    /\ buildPc = "config"

\* the config is evaluated: sidebar: generateSidebar()
GenerateSidebar ==
    /\ UNCHANGED <<guardVars, widgetVars, serverVars, galleryVars, themeVars>>
    /\ buildPc = "config"
    /\ sidebar' = generateSidebar(files)
    /\ buildPc' = "home"
    /\ UNCHANGED <<files, homePosts, recentPosts, archivePosts, feedItems>>

\* theme/data/posts.data.js: load()
LoadHomePosts ==
    /\ UNCHANGED <<guardVars, widgetVars, serverVars, galleryVars, themeVars>>
    /\ buildPc = "home"
    /\ homePosts' = getAllPosts(files, "/")
    /\ buildPc' = "recent"
    /\ UNCHANGED <<files, sidebar, recentPosts, archivePosts, feedItems>>

\* the recent-posts loader
LoadRecentPosts ==
    /\ UNCHANGED <<guardVars, widgetVars, serverVars, galleryVars, themeVars>>
    /\ buildPc = "recent"
    /\ recentPosts' = recentPostsOf(files)
    /\ buildPc' = "archive"
    /\ UNCHANGED <<files, sidebar, homePosts, archivePosts, feedItems>>

\* posts.data.js of the archive page
LoadArchivePosts ==
    /\ UNCHANGED <<guardVars, widgetVars, serverVars, galleryVars, themeVars>>
    /\ buildPc = "archive"
    /\ archivePosts' = archivePostsOf(files)
    /\ buildPc' = "feed"
    /\ UNCHANGED <<files, sidebar, homePosts, recentPosts, feedItems>>

\* buildEnd: genFeed
GenFeed ==
    /\ UNCHANGED <<guardVars, widgetVars, serverVars, galleryVars, themeVars>>
    /\ buildPc = "feed"
    /\ feedItems' = genFeed(files)
    /\ buildPc' = "done"
    /\ UNCHANGED <<files, sidebar, homePosts, recentPosts, archivePosts>>

(***************************************************************************)
(* The static file server (Deno.serve handler over serveDir).  dist is the *)
(* set of files of the built site, named by their url paths.               *)
(***************************************************************************)
DistFiles == {"/index.html", "/about.html", "/assets/app.js", "/feed.xml"}

Pathnames ==
    {"/", "/index.html", "/about", "/about.html", "/about.html/", "/assets",
     "/assets/", "/assets/app.js", "/missing.png", "/posts/hello", "/feed.xml"}

NoResponse == [status |-> 0, body |-> "", location |-> "", cors |-> FALSE]

\* is path a directory of dist ("/" is dist itself)
IsDirectory(d, path) ==
    \/ path = "/"
    \/ \E f \in d : StartsAt(f, 1, (IF endsWith(path, "/") THEN path ELSE path \o "/"))

\* serveDir(req, {fsRoot: "dist", showDirListing: false, enableCors: cors}) for
\* a plain GET: a file is served, a directory asked for without its slash
\* (or a file with one) is redirected, a directory serves its index.html, and
\* everything else is 404
serveDir(d, pathname, cors) ==
    LET file == IF endsWith(pathname, "/") /\ pathname # "/"
                THEN Upto(pathname, Len(pathname) - 1) ELSE pathname
    IN IF file \in d
       THEN IF file = pathname
            THEN [status |-> 200, body |-> file, location |-> "", cors |-> cors]
            ELSE [status |-> 301, body |-> "", location |-> file, cors |-> cors]
       ELSE IF IsDirectory(d, pathname)
            THEN IF ~endsWith(pathname, "/")
                 THEN [status |-> 301, body |-> "", location |-> pathname \o "/",
                       cors |-> cors]
                 ELSE IF (pathname \o "index.html") \in d
                      THEN [status |-> 200, body |-> pathname \o "index.html",
                            location |-> "", cors |-> cors]
                      ELSE [status |-> 404, body |-> "", location |-> "", cors |-> cors]
            ELSE [status |-> 404, body |-> "", location |-> "", cors |-> cors]

\* a handler that falls back on every 404
handler_AnyNotFound(d, pathname) ==
    LET response == serveDir(d, pathname, TRUE) IN
    IF response.status = 404
    THEN [calls |-> <<pathname, "/index.html">>,
          response |-> serveDir(d, "/index.html", FALSE)]
    ELSE [calls |-> <<pathname>>, response |-> response]

\* the handler given to Deno.serve: the response and the serveDir calls made
handler(d, pathname) ==
    LET response == serveDir(d, pathname, TRUE) IN
    IF response.status = 404 /\ ~includes(pathname, ".")
    THEN [calls |-> <<pathname, "/index.html">>,
          response |-> serveDir(d, "/index.html", FALSE)]
    ELSE [calls |-> <<pathname>>, response |-> response]

ServerIdle ==
    /\ dist = {}
    /\ request = ""
    /\ calls = <<>>
    /\ reply = NoResponse

ServerInit ==
    /\ dist \in SUBSET DistFiles
    /\ request = ""
    /\ calls = <<>>
    /\ reply = NoResponse

\* one request served
Serve ==
    /\ UNCHANGED <<guardVars, widgetVars, postsVars, galleryVars, themeVars>>
    /\ \E pathname \in Pathnames : \E served \in {handler(dist, pathname)} :
         /\ request' = pathname
         /\ calls' = served.calls
         /\ reply' = served.response
    /\ UNCHANGED dist

(***************************************************************************)
(* Gallery.vue.  A page holds galleries 1..MaxGalleries; d is the state    *)
(* the handlers read and write: show and cur are the refs showLightbox and *)
(* currentImage of each gallery, overflow is document.body.style.overflow, *)
(* listeners the galleries whose handleKeydown is registered.              *)
(***************************************************************************)
Galleries == 1..MaxGalleries

Keys == {"Escape", "ArrowLeft", "ArrowRight", "Enter"}

openLightbox(d, g, index) ==
    [d EXCEPT !.cur[g] = index, !.show[g] = TRUE, !.overflow = "hidden"]

\* a closeLightbox that leaves document.body alone
closeLightbox_KeepsLock(d, g) ==
    [d EXCEPT !.show[g] = FALSE]

closeLightbox(d, g) ==
    [d EXCEPT !.show[g] = FALSE, !.overflow = "auto"]

\* a nextImage without its test against images.length
nextImage_NoBound(d, g) ==
    [d EXCEPT !.cur[g] = @ + 1]

nextImage(d, g) ==
    IF d.cur[g] < images[g] - 1 THEN [d EXCEPT !.cur[g] = @ + 1] ELSE d

prevImage(d, g) ==
    IF d.cur[g] > 0 THEN [d EXCEPT !.cur[g] = @ - 1] ELSE d

handleKeydown(d, g, key) ==
    IF ~d.show[g] THEN d
    ELSE CASE key = "Escape" -> closeLightbox(d, g)
           [] key = "ArrowLeft" -> prevImage(d, g)
           [] key = "ArrowRight" -> nextImage(d, g)
           [] OTHER -> d

onMounted(d, g) ==
    [d EXCEPT !.listeners = @ \cup {g}]

onUnmounted(d, g) ==
    [d EXCEPT !.listeners = @ \ {g}, !.overflow = "auto"]

\* a keydown event on document: every registered listener runs, in order
RECURSIVE dispatchKeydown(_, _, _)
dispatchKeydown(d, g, key) ==
    IF g > MaxGalleries THEN d
    ELSE dispatchKeydown(IF g \in d.listeners THEN handleKeydown(d, g, key) ELSE d,
                         g + 1, key)

\* the page's galleries are mounted, one after the other
RECURSIVE mountAll(_, _)
mountAll(d, g) ==
    IF g > MaxGalleries THEN d ELSE mountAll(onMounted(d, g), g + 1)

\* the page's galleries are unmounted, one after the other
RECURSIVE unmountAll(_, _)
unmountAll(d, g) ==
    IF g > MaxGalleries THEN d ELSE unmountAll(onUnmounted(d, g), g + 1)

Doc ==
    [show |-> showLightbox, cur |-> currentImage, overflow |-> bodyOverflow,
     listeners |-> keydownListeners]

\* a lightbox is rendered: it is fixed over the whole viewport
LightboxShown == \E g \in keydownListeners : showLightbox[g]

Rendered(d, input) ==
    /\ showLightbox' = d.show
    /\ currentImage' = d.cur
    /\ bodyOverflow' = d.overflow
    /\ keydownListeners' = d.listeners
    /\ lastInput' = input

GalleryIdle ==
    /\ images = [g \in Galleries |-> 1]
    /\ showLightbox = [g \in Galleries |-> FALSE]
    /\ currentImage = [g \in Galleries |-> 0]
    /\ keydownListeners = {}
    /\ bodyOverflow = ""
    /\ pagePhase = "setup"
    /\ lastInput = ""

GalleryInit ==
    /\ images \in [Galleries -> 1..MaxImages]
    /\ showLightbox = [g \in Galleries |-> FALSE]
    /\ currentImage = [g \in Galleries |-> 0]
    /\ keydownListeners = {}
    /\ bodyOverflow = ""
    /\ pagePhase = "setup"
    /\ lastInput = ""

\* the page is shown: each gallery's setup runs, then its onMounted
MountPage ==
    /\ UNCHANGED <<guardVars, widgetVars, postsVars, serverVars, themeVars>>
    /\ pagePhase \in {"setup", "left"}
    /\ pagePhase' = "mounted"
    /\ Rendered(mountAll([show |-> [g \in Galleries |-> FALSE],
                          cur |-> [g \in Galleries |-> 0],
                          overflow |-> bodyOverflow,
                          listeners |-> keydownListeners], 1), "mount")
    /\ UNCHANGED images

\* a click on an image of the grid
ClickImage ==
    /\ UNCHANGED <<guardVars, widgetVars, postsVars, serverVars, themeVars>>
    /\ pagePhase = "mounted"
    /\ ~LightboxShown
    /\ \E g \in Galleries : \E index \in 0..(images[g] - 1) :
         Rendered(openLightbox(Doc, g, index), "open")
    /\ UNCHANGED <<images, pagePhase>>

\* a click on the close button or on the backdrop of the lightbox
ClickClose ==
    /\ UNCHANGED <<guardVars, widgetVars, postsVars, serverVars, themeVars>>
    /\ pagePhase = "mounted"
    /\ \E g \in Galleries :
         /\ showLightbox[g]
         /\ Rendered(closeLightbox(Doc, g), "close")
    /\ UNCHANGED <<images, pagePhase>>

\* a click on the next button, which is disabled at the last image
ClickNext ==
    /\ UNCHANGED <<guardVars, widgetVars, postsVars, serverVars, themeVars>>
    /\ pagePhase = "mounted"
    /\ \E g \in Galleries :
         /\ showLightbox[g]
         /\ currentImage[g] # images[g] - 1
         /\ Rendered(nextImage(Doc, g), "next")
    /\ UNCHANGED <<images, pagePhase>>

\* a click on the previous button, which is disabled at the first image
ClickPrev ==
    /\ UNCHANGED <<guardVars, widgetVars, postsVars, serverVars, themeVars>>
    /\ pagePhase = "mounted"
    /\ \E g \in Galleries :
         /\ showLightbox[g]
         /\ currentImage[g] # 0
         /\ Rendered(prevImage(Doc, g), "prev")
    /\ UNCHANGED <<images, pagePhase>>

\* a key is pressed
Keydown ==
    /\ UNCHANGED <<guardVars, widgetVars, postsVars, serverVars, themeVars>>
    /\ pagePhase = "mounted"
    /\ \E key \in Keys : Rendered(dispatchKeydown(Doc, 1, key), key)
    /\ UNCHANGED <<images, pagePhase>>

\* the reader leaves the page: its galleries are unmounted
LeavePage ==
    /\ UNCHANGED <<guardVars, widgetVars, postsVars, serverVars, themeVars>>
    /\ pagePhase = "mounted"
    /\ pagePhase' = "left"
    /\ Rendered(unmountAll(Doc, 1), "leave")
    /\ UNCHANGED images

(***************************************************************************)
(* useTheme, as ThemeToggle mounts it once in the root document.           *)
(***************************************************************************)
StoredThemes == {None, Some("light"), Some("dark")}

Settings == {"light", "dark", "system"}

\* the test of update() and of the inline script: is the class "dark" set
update(theme, prefers) ==
    theme = Some("dark") \/ (~theme.has /\ prefers)

ThemeIdle ==
    /\ localTheme = None
    /\ prefersDark = FALSE
    /\ darkClass = FALSE
    /\ setting = "system"
    /\ initial = TRUE
    /\ pendingSetting = None
    /\ listening = FALSE
    /\ themePc = "head"
    /\ storageEvent = FALSE
    /\ storedAtLoad = None
    /\ touched = FALSE

ThemeInit ==
    /\ localTheme \in StoredThemes
    /\ prefersDark \in BOOLEAN
    /\ darkClass = FALSE
    /\ setting = "system"
    /\ initial = TRUE
    /\ pendingSetting = None
    /\ listening = FALSE
    /\ themePc = "head"
    /\ storageEvent = FALSE
    /\ storedAtLoad = localTheme
    /\ touched = FALSE

\* the script in <head>, then the first render with setting "system"
InlineScript ==
    /\ UNCHANGED <<guardVars, widgetVars, postsVars, serverVars, galleryVars>>
    /\ themePc = "head"
    /\ darkClass' = update(localTheme, prefersDark)
    /\ themePc' = "layout1"
    /\ UNCHANGED <<localTheme, prefersDark, setting, initial, pendingSetting, listening,
                   storageEvent, storedAtLoad, touched>>

\* a first layout effect that reads the theme and does not call setSetting
ReadStoredTheme_NoSet ==
    /\ UNCHANGED <<guardVars, widgetVars, postsVars, serverVars, galleryVars>>
    /\ themePc = "layout1"
    /\ themePc' = "layout2"
    /\ UNCHANGED <<localTheme, prefersDark, darkClass, setting, initial, pendingSetting,
                   listening, storageEvent, storedAtLoad, touched>>

\* the first layout effect (deps []): setSetting(localStorage.theme)
ReadStoredTheme ==
    /\ UNCHANGED <<guardVars, widgetVars, postsVars, serverVars, galleryVars>>
    /\ themePc = "layout1"
    /\ pendingSetting' = IF localTheme \in {Some("light"), Some("dark")}
                         THEN localTheme
                         ELSE pendingSetting
    /\ themePc' = "layout2"
    /\ UNCHANGED <<localTheme, prefersDark, darkClass, setting, initial, listening,
                   storageEvent, storedAtLoad, touched>>

\* the second layout effect (deps [setting]), with the setting of its render
SyncSetting ==
    /\ UNCHANGED <<guardVars, widgetVars, postsVars, serverVars, galleryVars>>
    /\ themePc = "layout2"
    /\ \E stored \in {IF setting = "system" THEN None ELSE Some(setting)} :
         /\ localTheme' = stored
         /\ IF initial
            THEN /\ initial' = FALSE
                 /\ UNCHANGED darkClass
            ELSE /\ darkClass' = update(stored, prefersDark)
                 /\ UNCHANGED initial
    /\ themePc' = IF ~listening THEN "passive"
                  ELSE IF pendingSetting.has THEN "rerender" ELSE "idle"
    /\ UNCHANGED <<prefersDark, setting, pendingSetting, listening, storageEvent,
                   storedAtLoad, touched>>

\* the passive effect (deps []): the change and storage listeners are added
Subscribe ==
    /\ UNCHANGED <<guardVars, widgetVars, postsVars, serverVars, galleryVars>>
    /\ themePc = "passive"
    /\ listening' = TRUE
    /\ themePc' = IF pendingSetting.has THEN "rerender" ELSE "idle"
    /\ UNCHANGED <<localTheme, prefersDark, darkClass, setting, initial, pendingSetting,
                   storageEvent, storedAtLoad, touched>>

\* the render a setSetting call asked for; the second layout effect runs
\* again when the setting has changed
Rerender ==
    /\ UNCHANGED <<guardVars, widgetVars, postsVars, serverVars, galleryVars>>
    /\ themePc = "rerender"
    /\ pendingSetting.has
    /\ setting' = pendingSetting.v
    /\ pendingSetting' = None
    /\ themePc' = IF pendingSetting.v # setting THEN "layout2" ELSE "idle"
    /\ UNCHANGED <<localTheme, prefersDark, darkClass, initial, listening, storageEvent,
                   storedAtLoad, touched>>

\* the reader picks a theme in the listbox: onChange={setSetting}
SelectTheme ==
    /\ UNCHANGED <<guardVars, widgetVars, postsVars, serverVars, galleryVars>>
    /\ themePc = "idle"
    /\ \E s \in Settings : pendingSetting' = Some(s)
    /\ themePc' = "rerender"
    /\ touched' = TRUE
    /\ UNCHANGED <<localTheme, prefersDark, darkClass, setting, initial, listening,
                   storageEvent, storedAtLoad>>

\* another document of the site changes localStorage.theme
OtherTabSets ==
    /\ UNCHANGED <<guardVars, widgetVars, postsVars, serverVars, galleryVars>>
    /\ themePc = "idle"
    /\ \E v \in StoredThemes \ {localTheme} : localTheme' = v
    /\ storageEvent' = TRUE
    /\ touched' = TRUE
    /\ UNCHANGED <<prefersDark, darkClass, setting, initial, pendingSetting, listening,
                   themePc, storedAtLoad>>

\* the storage listener
onStorage ==
    /\ UNCHANGED <<guardVars, widgetVars, postsVars, serverVars, galleryVars>>
    /\ themePc = "idle"
    /\ listening
    /\ storageEvent
    /\ storageEvent' = FALSE
    /\ darkClass' = update(localTheme, prefersDark)
    /\ pendingSetting' = IF localTheme \in {Some("light"), Some("dark")}
                         THEN localTheme
                         ELSE Some("system")
    /\ themePc' = "rerender"
    /\ UNCHANGED <<localTheme, prefersDark, setting, initial, listening, storedAtLoad,
                   touched>>

\* the system's colour scheme changes; the change listener is update
MediaChange ==
    /\ UNCHANGED <<guardVars, widgetVars, postsVars, serverVars, galleryVars>>
    /\ themePc = "idle"
    /\ listening
    /\ prefersDark' = ~prefersDark
    /\ darkClass' = update(localTheme, ~prefersDark)
    /\ UNCHANGED <<localTheme, setting, initial, pendingSetting, listening, themePc,
                   storageEvent, storedAtLoad, touched>>

\* the document is loaded again
Reload ==
    /\ UNCHANGED <<guardVars, widgetVars, postsVars, serverVars, galleryVars>>
    /\ themePc = "idle"
    /\ darkClass' = FALSE
    /\ setting' = "system"
    /\ initial' = TRUE
    /\ pendingSetting' = None
    /\ listening' = FALSE
    /\ themePc' = "head"
    /\ storageEvent' = FALSE
    /\ storedAtLoad' = localTheme
    /\ touched' = FALSE
    /\ UNCHANGED <<localTheme, prefersDark>>

(***************************************************************************)
(* Specifications                                                          *)
(***************************************************************************)
GuardNext ==
    \/ RunJq
    \/ TestEmpty
    \/ RunPipeline
    \/ EchoBlocked
    \/ EchoStop
    \/ ExitBlocked

\* one run of the hook; the widget is not touched
GuardStart == GuardInit /\ WidgetInit /\ PostsIdle /\ ServerIdle /\ GalleryIdle /\ ThemeIdle

GuardSpec == GuardStart /\ [][GuardNext]_vars

WidgetNext ==
    \/ SelectMaterial
    \/ AddMaterial
    \/ ToggleStart
    \/ ToggleStop
    \/ TimerTick
    \/ Unmount

GuardIdle ==
    /\ stdin = [kind |-> "empty_input", text |-> "", fill |-> 0]
    /\ COMMAND = Unset
    /\ pc = "jq"
    /\ status = NoStatus
    /\ stdout = <<>>
    /\ stderr = <<>>

\* the widget from its mount on; the hook is not run
WidgetStart == GuardIdle /\ WidgetInit /\ PostsIdle /\ ServerIdle /\ GalleryIdle /\ ThemeIdle

WidgetSpec == WidgetStart /\ [][WidgetNext]_vars

\* the line fed with the material selected at the start; the interval timer of
\* a running line keeps firing
LineNext == AddMaterial \/ ToggleStart \/ ToggleStop \/ TimerTick \/ Unmount

LineFairSpec == WidgetStart /\ [][LineNext]_vars /\ WF_vars(TimerTick)

PostsNext ==
    \/ GenerateSidebar
    \/ LoadHomePosts
    \/ LoadRecentPosts
    \/ LoadArchivePosts
    \/ GenFeed

\* one build of the site from one source directory
PostsStart == GuardIdle /\ WidgetInit /\ PostsInit /\ ServerIdle /\ GalleryIdle /\ ThemeIdle

PostsSpec == PostsStart /\ [][PostsNext]_vars

ServerNext == Serve

\* the server over one built site, request after request
ServerStart == GuardIdle /\ WidgetInit /\ PostsIdle /\ ServerInit /\ GalleryIdle /\ ThemeIdle

ServerSpec == ServerStart /\ [][ServerNext]_vars

GalleryNext ==
    \/ MountPage
    \/ ClickImage
    \/ ClickClose
    \/ ClickNext
    \/ ClickPrev
    \/ Keydown
    \/ LeavePage

\* one page with its galleries: shown, used, left and shown again
GalleryStart ==
    GuardIdle /\ WidgetInit /\ PostsIdle /\ ServerIdle /\ GalleryInit /\ ThemeIdle

GallerySpec == GalleryStart /\ [][GalleryNext]_vars

ThemeNext ==
    \/ InlineScript
    \/ ReadStoredTheme
    \/ SyncSetting
    \/ Subscribe
    \/ Rerender
    \/ SelectTheme
    \/ OtherTabSets
    \/ onStorage
    \/ MediaChange
    \/ Reload

\* the root document from its load on
ThemeStart ==
    GuardIdle /\ WidgetInit /\ PostsIdle /\ ServerIdle /\ GalleryIdle /\ ThemeInit

ThemeSpec == ThemeStart /\ [][ThemeNext]_vars


(***************************************************************************)
(* The two patterns as the documentation words them, by positions in the   *)
(* command text (independent of the matcher above).                        *)
(***************************************************************************)
\* the whole word w stands at position i: no word character before or after it
WholeWordAt(s, i, w) ==
    StartsAt(s, i, w) /\ ~IsWordChar(s, i - 1) /\ ~IsWordChar(s, i + Len(w))

HasWholeWord(s, w) == \E i \in 1..Len(s) : WholeWordAt(s, i, w)

HasSubstring(s, w) == \E i \in 1..Len(s) : StartsAt(s, i, w)

SameLine(s, i, j) == \A k \in i..j : CharAt(s, k) # "\n"

\* whole word git, later on the line whole word commit or push
CommitOrPushAfterGit(s) ==
    \E i \in 1..Len(s) : \E j \in (i + 1)..Len(s) :
        /\ WholeWordAt(s, i, "git")
        /\ WholeWordAt(s, j, "commit") \/ WholeWordAt(s, j, "push")
        /\ SameLine(s, i, j)

\* whole word git, later whole word reset, later --hard (ending the word)
ResetHardAfterGit(s) ==
    \E i \in 1..Len(s) : \E j \in (i + 1)..Len(s) : \E k \in (j + 1)..Len(s) :
        /\ WholeWordAt(s, i, "git")
        /\ WholeWordAt(s, j, "reset")
        /\ StartsAt(s, k, "--hard") /\ ~IsWordChar(s, k + 6)
        /\ SameLine(s, i, k)

MatchesAPattern(s) == CommitOrPushAfterGit(s) \/ ResetHardAfterGit(s)

Done == pc = "done"
HasCommand == stdin.kind = "string_command" /\ stdin.text # ""

(***************************************************************************)
(* Claims about git-guard.sh (checked under GuardSpec)                     *)
(***************************************************************************)

\* C1: for every stdin whose tool_input.command is a non-empty string, the
\* script exits 2 if and only if the command matches one of the two patterns,
\* and exits 0 otherwise; no other exit status occurs.
C1_ExitTwoIffMatch ==
    (Done /\ HasCommand) =>
        /\ status \in {0, 2}
        /\ status = 2 <=> MatchesAPattern(stdin.text)

\* C2: every command in which git is invoked with the subcommand commit or
\* push, or with reset and --hard, is blocked (exit 2), whatever stands before
\* git or between git and the subcommand, on one line or several.
C2_GitInvocationBlocked ==
    (Done /\ HasCommand /\ stdin.fill = 0 /\ stdin.text \in GitInvocations) => status = 2

\* 'commit' and 'push' occur in s, but only as part of a longer word
OnlyInLongerWords(s) ==
    /\ HasSubstring(s, "commit") \/ HasSubstring(s, "push")
    /\ ~HasWholeWord(s, "commit")
    /\ ~HasWholeWord(s, "push")

\* C3 as stated: every command in which commit and push occur only as part of
\* a longer word, or in which git does not occur as a whole word, is allowed.
C3_Original ==
    (Done /\ HasCommand
          /\ (OnlyInLongerWords(stdin.text) \/ ~HasWholeWord(stdin.text, "git")))
        => status = 0

\* C3 (amended): every command in which commit and push occur only as part of
\* a longer word, or in which git does not occur as a whole word, is allowed
\* (exit 0), provided it does not match the reset ... --hard pattern.
C3_NoFalsePositive ==
    (Done /\ HasCommand
          /\ (OnlyInLongerWords(stdin.text) \/ ~HasWholeWord(stdin.text, "git"))
          /\ ~ResetHardAfterGit(stdin.text))
        => status = 0

\* a finished run on a command with the whole word git and a longer word that
\* holds 'push' or 'commit' (git pushd, git ... committed), which was allowed
C3_Witness ==
    /\ Done /\ HasCommand /\ status = 0
    /\ HasWholeWord(stdin.text, "git")
    /\ OnlyInLongerWords(stdin.text)

\* C4 as stated: every git command whose subcommand is not commit, push or
\* reset --hard is allowed, whatever arguments it carries.
C4_Original ==
    (Done /\ HasCommand /\ stdin.fill = 0 /\ stdin.text \in OtherGitCommands) => status = 0

\* C4 (amended): every git command whose subcommand is not commit, push or
\* reset --hard is allowed (exit 0), unless its arguments hold the whole word
\* commit or push (or --hard after reset) on the line of git.
C4_OtherSubcommandsAllowed ==
    (Done /\ HasCommand /\ stdin.fill = 0 /\ stdin.text \in OtherGitCommands
          /\ ~MatchesAPattern(stdin.text))
        => status = 0

\* a finished run on git reset without --hard, which was allowed
C4_Witness ==
    /\ Done /\ status = 0
    /\ stdin = [kind |-> "string_command", text |-> "git reset --soft HEAD~1", fill |-> 0]

\* C5: when the guard allows a command it writes nothing to standard output or
\* standard error; when it blocks it writes exactly two lines to standard
\* error, nothing to standard output, and exits 2.
C5_OutputOnAllowAndBlock ==
    (Done /\ HasCommand) =>
        /\ status = 0 => (stdout = <<>> /\ stderr = <<>>)
        /\ status # 0 => (status = 2 /\ stdout = <<>> /\ stderr = BlockedLines)

\* C6: the guard exits nonzero only on a match: every stdin that yields no
\* matching command (no command field, a null or empty command, stdin that is
\* not JSON) exits 0.
C6_NonzeroOnlyOnMatch ==
    (Done /\ status # 0) =>
        (stdin.kind = "string_command" /\ MatchesAPattern(stdin.text))

\* C7: the command python3 -c "import subprocess; subprocess.run(['git',
\* 'push'])" is allowed (exit 0).
C7_PythonEmbeddedAllowed ==
    (Done /\ stdin = [kind |-> "string_command", text |-> PythonEmbedded, fill |-> 0])
        => status = 0

(***************************************************************************)
(* Claims about the assembly-line widget (checked under WidgetSpec)        *)
(***************************************************************************)
Occupied(i) == stations[i].part # Null

\* C8: each station holds at most one part, no part occupies two stations at
\* once, and no tick moved a part into a station that was still occupied.
C8_OnePartPerStation ==
    /\ \A i \in 0..4 :
         Occupied(i) => stations[i].part.id \in 0..(nextId - 1)
    /\ \A i, j \in 0..4 :
         (i # j /\ Occupied(i) /\ Occupied(j)) => stations[i].part.id # stations[j].part.id
    /\ ~lastEvent.hit

\* a tick has just run and left two neighbouring stations occupied
C8_Witness ==
    /\ lastEvent.tick
    /\ \E i \in 0..3 : Occupied(i) /\ Occupied(i + 1)

SameWidget(w, p) ==
    /\ w.type = p.type /\ w.size = p.size /\ w.serial = p.serial
    /\ w.color = p.color /\ w.passed = p.passed

\* C9: one tick advances every in-flight part by exactly one stage: the part
\* of station i (0..3) is in station i+1 afterwards, the part of station 4 is
\* appended to the output, and no part stays in its station.
C9_TickAdvancesEveryPart ==
    [][lastEvent'.tick =>
        /\ \A i \in 0..3 :
             Occupied(i) =>
                /\ stations'[i + 1].part # Null
                /\ stations'[i + 1].part.id = stations[i].part.id
                /\ stations'[i].part # Null => stations'[i].part.id # stations[i].part.id
        /\ Occupied(4) =>
             /\ Len(outputWidgets') = Len(outputWidgets) + 1
             /\ SubSeq(outputWidgets', 1, Len(outputWidgets)) = outputWidgets
             /\ SameWidget(outputWidgets'[Len(outputWidgets')], stations[4].part)
             /\ stations'[4].part # Null => stations'[4].part.id # stations[4].part.id
        /\ ~Occupied(4) => outputWidgets' = outputWidgets
      ]_vars

\* a tick has just run, a widget has reached the output and a part is in flight
C9_Witness ==
    /\ lastEvent.tick
    /\ Len(outputWidgets) >= 1
    /\ \E i \in 1..4 : Occupied(i)

\* C10: while mounted, at most one interval timer is active, and a timer is
\* active if and only if running is true (tickTimer non-null exactly then).
C10_OneTimerIffRunning ==
    mounted =>
        /\ Cardinality(activeTimers) <= 1
        /\ (activeTimers # {}) <=> running
        /\ (tickTimer # NullTimer) <=> running
        /\ running => activeTimers = {tickTimer}

\* the line was started, a part is in flight, and the line has been stopped
C10_Witness ==
    /\ mounted /\ ~running
    /\ \E i \in 1..4 : Occupied(i)


\* C11: unmounting cancels the interval timer: after the unmount no timer is
\* left that could run tick, and queue, stations and output never change again.
C11_NoTickAfterUnmount ==
    /\ [](~mounted => activeTimers = {})
    /\ [][~mounted => UNCHANGED <<materialQueue, stations, outputWidgets>>]_vars

\* the component was unmounted while the line was running with a part in flight
C11_Witness ==
    /\ ~mounted /\ running /\ tickTimer # NullTimer
    /\ \E i \in 0..4 : Occupied(i)

\* the colours the documentation gives for the three materials
ColorOf(type) ==
    IF type = "steel" THEN "blue" ELSE IF type = "aluminum" THEN "silver" ELSE "black"

WidgetSerials == {"WDG-0001", "WDG-0002", "WDG-0003", "WDG-0004", "WDG-0005", "WDG-0006"}

\* C12: every widget of the output has gone through cut, stamp, paint and
\* inspect: its size is min(material length, 10), its serial is a WDG- number,
\* its colour is the one of its material type, passed holds exactly when
\* size >= 8; none carries a default size, serial or colour.
C12_OutputFullyProcessed ==
    \A k \in 1..Len(outputWidgets) :
        LET w == outputWidgets[k]
            m == added[k]
        IN /\ k <= Len(added)
           /\ w.type = m.type
           /\ w.size = (IF m.length < 10 THEN m.length ELSE 10)
           /\ w.serial \in WidgetSerials
           /\ w.color = ColorOf(w.type)
           /\ w.passed <=> w.size >= 8
           /\ w.size # 0 /\ w.serial # "" /\ w.color # ""

\* the output holds a widget cut down to 10 that passed and one that failed
C12_Witness ==
    /\ \E k \in 1..Len(outputWidgets) : outputWidgets[k].passed /\ added[k].length > 10
    /\ \E k \in 1..Len(outputWidgets) : ~outputWidgets[k].passed

\* where material id is: -k at queue position k (1-based), i in station i, 5
\* once it has left station 4
StageOf(q, st, id) ==
    IF \E k \in 1..Len(q) : q[k].id = id
    THEN 0 - (CHOOSE k \in 1..Len(q) : q[k].id = id)
    ELSE IF \E i \in 0..4 : st[i].part # Null /\ st[i].part.id = id
         THEN CHOOSE i \in 0..4 : st[i].part # Null /\ st[i].part.id = id
         ELSE 5

Stage(id) == StageOf(materialQueue, stations, id)

\* C13: every tick moves every material one step on: queue position k (0-based)
\* becomes k-1, position 0 enters station 0, station i becomes i+1 and station
\* 4 is appended to the output (so position k enters station 0 on the k-th
\* following tick and reaches the output five ticks later); and while the line
\* keeps running every queued material is eventually in the output.
C13_QueuedMaterialReachesOutput ==
    /\ [][lastEvent'.tick =>
            /\ \A id \in 0..(nextId - 1) :
                 Stage(id) < 5 => StageOf(materialQueue', stations', id) = Stage(id) + 1
            /\ Len(outputWidgets') = Len(outputWidgets) + (IF Occupied(4) THEN 1 ELSE 0)
         ]_vars
    /\ \A id \in 0..(MaxMaterials - 1) :
         (id < nextId /\ Stage(id) < 5 /\ running /\ mounted)
            ~> ((id < nextId /\ Stage(id) = 5) \/ ~running \/ ~mounted)

\* two materials were queued behind each other and both are in the output
C13_Witness ==
    /\ Len(outputWidgets) >= 2
    /\ running

\* C19: the number of materials ever added equals the queue length plus the
\* number of occupied stations plus the output length, and no material is in
\* two places.
C19_PartsConserved ==
    /\ Len(added) = nextId
    /\ nextId = Len(materialQueue) + Cardinality({i \in 0..4 : Occupied(i)})
                  + Len(outputWidgets)
    /\ \A k1, k2 \in 1..Len(materialQueue) :
         k1 # k2 => materialQueue[k1].id # materialQueue[k2].id
    /\ \A k \in 1..Len(materialQueue) : \A i \in 0..4 :
         Occupied(i) => stations[i].part.id # materialQueue[k].id

\* a material waits in the queue, one is in a station or the output
C19_Witness ==
    /\ Len(materialQueue) >= 1
    /\ Len(outputWidgets) + Cardinality({i \in 0..4 : Occupied(i)}) >= 1
    /\ lastEvent.tick

\* C20: first in, first out: materials leave in the order they were added and
\* never overtake one another in the queue or in the stations.
C20_FirstInFirstOut ==
    /\ \A k1, k2 \in 1..Len(materialQueue) :
         k1 < k2 => materialQueue[k1].id < materialQueue[k2].id
    /\ \A k \in 1..Len(materialQueue) : \A i \in 0..4 :
         Occupied(i) => stations[i].part.id < materialQueue[k].id
    /\ \A i, j \in 0..4 :
         (i < j /\ Occupied(i) /\ Occupied(j)) => stations[i].part.id > stations[j].part.id
    /\ \A id \in 0..(nextId - 1) : Stage(id) = 5 <=> id < Len(outputWidgets)
    /\ \A k \in 1..Len(outputWidgets) :
         /\ k <= Len(added)
         /\ outputWidgets[k].type = added[k].type
         /\ outputWidgets[k].size = Min(added[k].length, 10)

\* the first material is in the output, the second one still in a station
C20_Witness ==
    /\ Len(outputWidgets) = 1
    /\ \E i \in 0..4 : Occupied(i) /\ stations[i].part.id = 1


\* d1 and d2 are dates and d1 is the later one
Later(d1, d2) == ~NewDate(d1).nan /\ ~NewDate(d2).nan /\ NewDate(d1).t > NewDate(d2).t

\* the date in the frontmatter of the post a sidebar link leads to
DateOfLink(link) ==
    LET k == CHOOSE k \in 1..Len(files) : "/" \o replace(files[k].path, ".md", "") = link
    IN field(frontmatterMatch(files[k].content).lines, "date").v

\* C14: the post list of getAllPosts, and with it the sidebar and the home
\* page list, is ordered by date descending: of any two listed posts the one
\* with the later date comes first.
C14_PostsNewestFirst ==
    /\ \A i, j \in 1..Len(homePosts) :
         Later(homePosts[i].date, homePosts[j].date) => i < j
    /\ \A i, j \in 1..Len(sidebar) :
         Later(DateOfLink(sidebar[i].link), DateOfLink(sidebar[j].link)) => i < j

PageNames == {"index", "about", "archive", "work-with-me", "resume"}

\* url names one of the non-post pages, in any of the forms a listing uses
RefersToPage(url) ==
    \/ url \in {"", "/"}
    \/ \E n \in PageNames : url \in {"/" \o n, "/" \o n \o "/", "/" \o n \o ".html"}

\* C15: in no post listing the site generates do the non-post pages index,
\* about, archive, work-with-me and resume appear, whatever frontmatter they
\* carry.
C15_NonPostPagesNeverListed ==
    /\ \A i \in 1..Len(sidebar) : ~RefersToPage(sidebar[i].link)
    /\ \A i \in 1..Len(homePosts) : ~RefersToPage(homePosts[i].url)
    /\ \A i \in 1..Len(feedItems) : ~RefersToPage(From(feedItems[i].link, Len(siteUrl) + 1))
    /\ \A i \in 1..Len(recentPosts) : ~RefersToPage(recentPosts[i].link)
    /\ \A i \in 1..Len(archivePosts) : ~RefersToPage(archivePosts[i].url)

\* the file has no frontmatter block, or its frontmatter has no title or no date
Lacking(content) == content \in {NoFrontmatter, NoTitle, NoDate}

\* the name of a file of the source directory, without .md
NameOf(f) == Upto(f.path, Len(f.path) - 3)

\* C16: a file without frontmatter, title or date is skipped: it is in
\* neither the sidebar, nor the home page list, nor the RSS feed.
C16_IncompleteFilesSkipped ==
    \A k \in 1..Len(files) :
        Lacking(files[k].content) =>
            /\ \A i \in 1..Len(sidebar) : sidebar[i].link # "/" \o NameOf(files[k])
            /\ \A i \in 1..Len(homePosts) : homePosts[i].url # "/" \o NameOf(files[k]) \o "/"
            /\ \A i \in 1..Len(feedItems) :
                 feedItems[i].link # siteUrl \o "/" \o NameOf(files[k]) \o ".html"

\* the links the feed is to hold: one for each file of the source directory
\* that is not an excluded page and has a date in its frontmatter
FeedLinks ==
    {siteUrl \o "/" \o NameOf(files[k]) \o ".html" :
        k \in {k \in 1..Len(files) :
                 /\ \A i \in 1..Len(files[k].path) : CharAt(files[k].path, i) # "/"
                 /\ NameOf(files[k]) \notin PageNames
                 /\ files[k].content \in {Dated2023, Dated2024, DatedTBD, NoTitle}}}

\* C17: the feed holds exactly one item for each page that is not excluded and
\* has a frontmatter date, and the items are in date-descending order.
C17_FeedItemsNewestFirst ==
    buildPc = "done" =>
        /\ {feedItems[i].link : i \in 1..Len(feedItems)} = FeedLinks
        /\ Len(feedItems) = Cardinality(FeedLinks)
        /\ \A i, j \in 1..Len(feedItems) :
             Later(feedItems[i].date, feedItems[j].date) => i < j

\* request has no '.' in it
NoDot(path) == \A i \in 1..Len(path) : CharAt(path, i) # "."

\* C18: the server answers with index.html exactly when the static lookup
\* gave 404 and the pathname has no '.'; in every other case the lookup's
\* response is returned as it is.
C18_FallbackOnlyForPathsWithoutDot ==
    request # "" =>
        IF serveDir(dist, request, TRUE).status = 404 /\ NoDot(request)
        THEN calls = <<request, "/index.html">>
             /\ reply = serveDir(dist, "/index.html", FALSE)
        ELSE calls = <<request>>
             /\ reply = serveDir(dist, request, TRUE)

\* a path of the single-page app, not a file of dist, was answered with
\* index.html, and so was a directory without an index
C18_Witness ==
    /\ request \in {"/posts/hello", "/assets/"}
    /\ Len(calls) = 2
    /\ reply.status = 200 /\ reply.body = "/index.html"


\* the serial numbers in the order the Stamp station gives them out
SerialNumbers ==
    <<"WDG-0001", "WDG-0002", "WDG-0003", "WDG-0004", "WDG-0005", "WDG-0006">>

\* C21: the k-th widget appended to the output carries serial number k
\* (WDG-0001, WDG-0002, ...), so no two output widgets share a serial.
C21_SerialsCountOutput ==
    /\ \A k \in 1..Len(outputWidgets) :
         k <= Len(SerialNumbers) /\ outputWidgets[k].serial = SerialNumbers[k]
    /\ \A j, k \in 1..Len(outputWidgets) :
         j # k => outputWidgets[j].serial # outputWidgets[k].serial

\* two widgets are in the output
C21_Witness == Len(outputWidgets) >= 2 /\ serialCounter >= 3

\* C22: between ticks every part held in a station has ticksLeft = 1; a part
\* with ticksLeft = 0 is never seen once a tick has completed.
C22_PartsAlwaysProcessing ==
    \A i \in 0..4 : Occupied(i) => stations[i].part.ticksLeft = 1

\* a tick has completed with parts in two stations next to each other and a
\* material still waiting
C22_Witness ==
    /\ lastEvent.tick
    /\ \E i \in 0..3 : Occupied(i) /\ Occupied(i + 1)
    /\ running

\* C23: while the line is stopped the stations and the output do not change
\* and the queue changes only by addMaterial appending one material to its
\* tail; stopping the line leaves queue, stations and output as they are.
C23_StoppedLineKeepsState ==
    [][/\ (~running /\ ~running') =>
            /\ stations' = stations
            /\ outputWidgets' = outputWidgets
            /\ \/ materialQueue' = materialQueue
               \/ /\ Len(materialQueue') = Len(materialQueue) + 1
                  /\ SubSeq(materialQueue', 1, Len(materialQueue)) = materialQueue
                  /\ materialQueue'[Len(materialQueue')].type = selectedMaterial
       /\ (running /\ ~running') =>
            /\ stations' = stations
            /\ outputWidgets' = outputWidgets
            /\ materialQueue' = materialQueue
      ]_vars

\* the line was stopped with a part in flight and a material was added after
C23_Witness ==
    /\ ~running /\ tickTimer = NullTimer /\ mounted
    /\ \E i \in 0..4 : Occupied(i) /\ stations[i].part.ticksLeft = 1
    /\ Len(materialQueue) >= 1
    /\ ~lastEvent.tick


\* C24: for a non-empty image list of length n, currentImage stays within
\* 0..n-1 whatever is clicked or pressed; nextImage at the last image and
\* prevImage at the first leave it unchanged.
C24_CurrentImageInRange ==
    \A g \in Galleries : currentImage[g] \in 0..(images[g] - 1)

\* ArrowRight was pressed while the lightbox showed the last of several images
C24_Witness ==
    /\ lastInput = "ArrowRight"
    /\ \E g \in Galleries :
         /\ showLightbox[g]
         /\ images[g] >= 2
         /\ currentImage[g] = images[g] - 1

\* C25: while the page is mounted document.body's overflow is 'hidden'
\* exactly while a gallery's lightbox is shown, and once the galleries are
\* unmounted, with a lightbox open or not, it is not 'hidden'.
C25_ScrollLockedWhileShown ==
    /\ pagePhase = "mounted" => (bodyOverflow = "hidden" <=> LightboxShown)
    /\ pagePhase = "mounted" =>
         \A g \in Galleries : showLightbox[g] => bodyOverflow = "hidden"
    /\ pagePhase # "mounted" => bodyOverflow # "hidden"

\* the page was left while a lightbox was open
C25_Witness ==
    /\ pagePhase = "left"
    /\ lastInput = "leave"
    /\ \E g \in Galleries : showLightbox[g]
    /\ bodyOverflow = "auto"

\* C26: when localStorage.theme was 'light' or 'dark' before the hook
\* mounted, then with the mount effects settled the setting is that value
\* and localStorage.theme still holds it.
C26_MountKeepsStoredTheme ==
    (/\ themePc = "idle"
     /\ ~touched
     /\ storedAtLoad \in {Some("light"), Some("dark")})
    => /\ setting = storedAtLoad.v
       /\ localTheme = storedAtLoad

\* the mount has settled on a stored 'dark' that the system does not prefer
C26_Witness ==
    /\ themePc = "idle"
    /\ ~touched
    /\ storedAtLoad = Some("dark")
    /\ ~prefersDark
    /\ listening
    /\ ~initial
    /\ setting = "dark"


====
